---- MODULE Spec2Model ----
(***************************************************************************)
(* chowkidar: cookie-carried access-token / refresh-token authentication.  *)
(*                                                                         *)
(* The model follows one server that handles requests one after another:   *)
(*   on_request_start  (extension.py)  resolves the requester,             *)
(*   resolve + a resolver (extension.py, wrappers.py, graphql/schema.py)   *)
(*                     runs once per resolved field,                       *)
(*   finish_response   (view.py)       writes the cookies.                 *)
(* The clock may advance between any two of these steps.                   *)
(*                                                                         *)
(* Time is counted in ticks.  None (-1) stands for Python's None / SQL     *)
(* NULL; NoToken and NoRow are the None of token-valued and row-valued     *)
(* places.                                                                 *)
(***************************************************************************)
EXTENDS Integers, FiniteSets, Sequences, TLC

\* ---------------------------------------------------------------- bounds
MaxTime == 4
MaxRows == 1
MaxMinted == 2
MaxFields == 1
NumUsers == 2

\* -------------------------------------------------------------- settings
\* The two lifetimes are settings of the deployment (60 seconds and 7 days
\* when unset), here in ticks: an access token outlives one tick, a
\* refresh token three.
JWT_ACCESS_TOKEN_EXPIRATION_DELTA == 1
JWT_REFRESH_TOKEN_EXPIRATION_DELTA == 3

\* settings.py: 0 when the deployment does not set it.
JWT_LEEWAY == 0

None == -1
Users == 1..NumUsers

\* ---------------------------------------------------------------- tokens
\* A cookie value.  kind "absent": the cookie is not in request.COOKIES;
\* "empty": present with value ""; "garbled": a string that is no token
\* signed with the server's key; "access" / "refresh": a token signed by
\* generate_token_from_claims with the claims of an access token
\* (userID, origIat) or of a refresh-token wrapper (refreshToken).
\* rt is a history annotation: the id of the refresh-token row an access
\* token was minted from.  It is not a claim of the token.
NoToken ==
    [kind |-> "absent", userID |-> None, refreshToken |-> None,
     origIat |-> None, iat |-> None, exp |-> None, rt |-> None]

EmptyCookie == [NoToken EXCEPT !.kind = "empty"]

GarbledCookie == [NoToken EXCEPT !.kind = "garbled"]

NoRow ==
    [id |-> None, user |-> None, token |-> None, issued |-> None,
     revoked |-> None]

\* ------------------------------------------------------------------ state
VARIABLES
    now,            \* the clock
    store,          \* the refresh-token table: a set of rows
    nextId,         \* next BigAutoField id, also the next fresh secret
    minted,         \* access tokens generated so far
    issuedRefresh,  \* refresh-token cookies written so far
    self,           \* the JWTAuthExtension instance (reused across requests)
    request,        \* the HttpRequest: its cookies and the attributes set on it
    context,        \* info.context of the request
    response,       \* the cookie operations on the HttpResponse
    pc,             \* "idle": no request; "resolving": on_request_start
                    \* returned; "failed": on_request_start raised
    fields,         \* resolvers run in the current request
    raised,         \* the exception on_request_start (or, for one client, a
                    \* resolver of the request) raised, or "none"
    revokedLog,     \* history: [id, at] for the first revocation of a row
    dbReads,        \* table reads made by on_request_start of this request
    dbWrites        \* table writes made by on_request_start of this request

vars ==
    <<now, store, nextId, minted, issuedRefresh, self, request, context,
      response, pc, fields, raised, revokedLog, dbReads, dbWrites>>

\* ------------------------------------------------------------ utils/jwt.py
\* jwt.decode of PyJWT: a string that is not a token signed with the key
\* fails with InvalidTokenError; a signed token fails with
\* ExpiredSignatureError when exp <= now - leeway.
jwt_decode(token, t, leeway) ==
    IF token.kind \notin {"access", "refresh"}
    THEN [status |-> "InvalidTokenError", payload |-> NoToken]
    ELSE IF token.exp <= t - leeway
    THEN [status |-> "ExpiredSignatureError", payload |-> NoToken]
    ELSE [status |-> "ok", payload |-> token]

\* decode_token hands JWT_LEEWAY to jwt.decode under the keyword "leeyway",
\* which jwt.decode does not know: its leeway keeps the default 0.
decode_token(token, t) == jwt_decode(token, t, 0)

\* The AuthError code raised for a token, or "ok" with the payload.
decode_payload_from_token(token, t) ==
    LET r == decode_token(token, t)
    IN  IF r.status = "ExpiredSignatureError"
        THEN [code |-> "EXPIRED_TOKEN", payload |-> NoToken]
        ELSE IF r.status = "InvalidTokenError"
        THEN [code |-> "INVALID_TOKEN", payload |-> NoToken]
        ELSE [code |-> "ok", payload |-> r.payload]

\* A generator that also stamps origIat with the time of generation.
generate_token_from_claims_stamping_origIat(claims, expiration_delta, t) ==
    [claims EXCEPT !.iat = t, !.exp = t + expiration_delta, !.origIat = t]

\* claims: a token record carrying the claims; iat and exp are added.
generate_token_from_claims(claims, expiration_delta, t) ==
    [claims EXCEPT !.iat = t, !.exp = t + expiration_delta]

\* ------------------------------------------------------------- models.py
get_access_token_expiry_delta == JWT_ACCESS_TOKEN_EXPIRATION_DELTA

get_refresh_token_expiry_delta == JWT_REFRESH_TOKEN_EXPIRATION_DELTA

\* hexlify(urandom(JWT_REFRESH_TOKEN_N_BYTES)).decode() for the bytes urandom
\* returned: hexlify is one-to-one, the secret is the bytes.
generate_token(urandom) == urandom

\* AbstractRefreshToken.save of a new instance with id n: the secret is
\* generated from the bytes urandom returns, issued is set by auto_now_add,
\* revoked is NULL.  The unique_together of (token, revoked) rejects no
\* insert: with revoked NULL no two rows compare equal.
save(db, n, userID, urandom, t) ==
    db \cup {[id |-> n, user |-> userID, token |-> generate_token(urandom),
              issued |-> t, revoked |-> None]}

\* ---------------------------------------------------------- extension.py
\* The attributes of an instance on which on_request_start never ran.
UnsetState ==
    [userID |-> None, refreshToken |-> None, refreshTokenObj |-> NoRow,
     new_JWT_access_token |-> NoToken, remove_auth_cookies |-> FALSE]

\* A reset that forgets one attribute.
_init_request_state_keeping_userID(ext) ==
    [userID |-> ext.userID, refreshToken |-> None, refreshTokenObj |-> NoRow,
     new_JWT_access_token |-> NoToken, remove_auth_cookies |-> FALSE]

_init_request_state(ext) ==
    [userID |-> None, refreshToken |-> None, refreshTokenObj |-> NoRow,
     new_JWT_access_token |-> NoToken, remove_auth_cookies |-> FALSE]

\* A test that takes a cookie with an empty value for a cookie.
is_cookie_in_request_with_empty_value(req, cookie_name) ==
    req[cookie_name].kind # "absent"

is_cookie_in_request(req, cookie_name) ==
    req[cookie_name].kind \notin {"absent", "empty"}

\* A lookup that reads the access-token cookie whatever the name given.
_get_token_payload_from_access_cookie(req, cookie_name, t) ==
    IF is_cookie_in_request(req, "JWT_ACCESS_TOKEN")
    THEN decode_payload_from_token(req["JWT_ACCESS_TOKEN"], t).payload
    ELSE NoToken

\* A lookup that does not see the access-token cookie of a request that
\* also carries a refresh-token cookie.
_get_token_payload_refresh_first(req, cookie_name, t) ==
    IF /\ cookie_name = "JWT_ACCESS_TOKEN"
       /\ is_cookie_in_request(req, "JWT_REFRESH_TOKEN")
    THEN NoToken
    ELSE IF is_cookie_in_request(req, cookie_name)
    THEN decode_payload_from_token(req[cookie_name], t).payload
    ELSE NoToken

_get_token_payload_from_cookie(req, cookie_name, t) ==
    IF is_cookie_in_request(req, cookie_name)
    THEN decode_payload_from_token(req[cookie_name], t).payload
    ELSE NoToken

\* The query without its revoked__isnull filter.
ActiveRows_ignoring_revoked(db, secret, t) ==
    {r \in db : /\ r.token = secret
                /\ r.issued >= t - get_refresh_token_expiry_delta}

\* The query without its issued__gte filter.
ActiveRows_ignoring_expiry(db, secret, t) ==
    {r \in db : /\ r.token = secret
                /\ r.revoked = None}

\* RefreshToken.objects.get(token=, revoked__isnull=True, issued__gte=):
\* the rows the query matches.
ActiveRows(db, secret, t) ==
    {r \in db : /\ r.token = secret
                /\ r.revoked = None
                /\ r.issued >= t - get_refresh_token_expiry_delta}

\* A lookup that asks for the cookies to be removed whatever it finds.
_get_refresh_token_object_always_flagging(ext, db, t) ==
    IF ext.refreshToken = None
    THEN [ext |-> ext, obj |-> NoRow, raised |-> "none", reads |-> 0]
    ELSE LET m == ActiveRows(db, ext.refreshToken, t)
             flagged == [ext EXCEPT !.remove_auth_cookies = TRUE]
         IN  IF m = {}
             THEN [ext |-> flagged, obj |-> NoRow, raised |-> "none",
                   reads |-> 1]
             ELSE IF Cardinality(m) > 1
             THEN [ext |-> ext, obj |-> NoRow,
                   raised |-> "MultipleObjectsReturned", reads |-> 1]
             ELSE [ext |-> flagged, obj |-> CHOOSE r \in m : TRUE,
                   raised |-> "none", reads |-> 1]

\* Returns the instance state after the call, the row found (NoRow for
\* None), the exception that escaped and the number of table reads.
_get_refresh_token_object(ext, db, t) ==
    IF ext.refreshToken = None
    THEN [ext |-> ext, obj |-> NoRow, raised |-> "none", reads |-> 0]
    ELSE LET m == ActiveRows(db, ext.refreshToken, t)
         IN  IF m = {}
             THEN [ext |-> [ext EXCEPT !.remove_auth_cookies = TRUE],
                   obj |-> NoRow, raised |-> "none", reads |-> 1]
             ELSE IF Cardinality(m) > 1
             THEN [ext |-> ext, obj |-> NoRow,
                   raised |-> "MultipleObjectsReturned", reads |-> 1]
             ELSE [ext |-> ext, obj |-> CHOOSE r \in m : TRUE,
                   raised |-> "none", reads |-> 1]

\* What on_request_start leaves behind: the instance state, the exception
\* that escaped ("none" when it returned), the access token it generated
\* (NoToken when none), the user whose last_login it saved (None when none)
\* and the table reads and writes it made.
Outcome(ext, exc, tok, user, r, w) ==
    [ext |-> ext, raised |-> exc, generated |-> tok, touched |-> user,
     reads |-> r, writes |-> w]

on_request_start(ext, req, db, t) ==
    LET s0 == _init_request_state(ext)
        access_token_payload ==
            _get_token_payload_from_cookie(req, "JWT_ACCESS_TOKEN", t)
        refresh_token_payload ==
            _get_token_payload_from_cookie(req, "JWT_REFRESH_TOKEN", t)
        s1 == IF refresh_token_payload # NoToken
              THEN [s0 EXCEPT !.refreshToken =
                                  refresh_token_payload.refreshToken]
              ELSE s0
    IN  IF refresh_token_payload # NoToken
           /\ refresh_token_payload.kind # "refresh"
        THEN \* refresh_token_payload["refreshToken"]: no such claim
             Outcome(s0, "KeyError", NoToken, None, 0, 0)
        ELSE IF access_token_payload # NoToken
        THEN IF access_token_payload.kind # "access"
             THEN \* access_token_payload["userID"]: no such claim
                  Outcome(s1, "KeyError", NoToken, None, 0, 0)
             ELSE Outcome([s1 EXCEPT !.userID = access_token_payload.userID],
                          "none", NoToken, None, 0, 0)
        ELSE IF refresh_token_payload # NoToken
        THEN LET g == _get_refresh_token_object(s1, db, t)
                 obj == g.obj
                 tok == generate_token_from_claims(
                            [NoToken EXCEPT !.kind = "access",
                                            !.userID = obj.user,
                                            !.origIat = obj.issued,
                                            !.rt = obj.id],
                            get_access_token_expiry_delta, t)
             IN  IF g.raised # "none"
                 THEN Outcome(g.ext, g.raised, NoToken, None, g.reads, 0)
                 ELSE IF obj # NoRow
                 THEN Outcome([g.ext EXCEPT !.refreshTokenObj = obj,
                                            !.refreshToken = obj.token,
                                            !.new_JWT_access_token = tok,
                                            !.userID = obj.user],
                              "none", tok, obj.user, g.reads, 1)
                 ELSE Outcome(g.ext, "none", NoToken, None, g.reads, 0)
        ELSE IF is_cookie_in_request(req, "JWT_ACCESS_TOKEN")
                \/ is_cookie_in_request(req, "JWT_REFRESH_TOKEN")
        THEN Outcome([s1 EXCEPT !.remove_auth_cookies = TRUE],
                     "none", NoToken, None, 0, 0)
        ELSE Outcome(s1, "none", NoToken, None, 0, 0)

\* A resolve that also hands the refresh token back on renewal.
resolve_request_resending_refresh_token(ext, req) ==
    IF ext.new_JWT_access_token # NoToken
    THEN [req EXCEPT !.REFRESHED_ACCESS_TOKEN = ext.new_JWT_access_token,
                     !.NEW_REFRESH_TOKEN = ext.refreshTokenObj]
    ELSE IF ext.remove_auth_cookies
    THEN [req EXCEPT !.PERFORM_LOGOUT = TRUE]
    ELSE req

\* resolve, up to the call of the wrapped resolver: the attributes it sets
\* on the request and on info.context.
resolve_request(ext, req) ==
    IF ext.new_JWT_access_token # NoToken
    THEN [req EXCEPT !.REFRESHED_ACCESS_TOKEN = ext.new_JWT_access_token]
    ELSE IF ext.remove_auth_cookies
    THEN [req EXCEPT !.PERFORM_LOGOUT = TRUE]
    ELSE req

resolve_context(ext, ctx) ==
    [ctx EXCEPT !.refreshTokenObj = ext.refreshTokenObj,
                !.refreshToken = ext.refreshToken,
                !.userID = ext.userID]

\* ----------------------------------------------------------- wrappers.py
\* A wrapper that issues the token to the requester (info.context.userID)
\* instead of LOGIN_USER.
issue_tokens_on_login_for_requester(ctx, req, db, n, urandom, t) ==
    IF ctx.LOGIN_USER # None
    THEN LET db2 == save(db, n, ctx.userID, urandom, t)
             token == CHOOSE r \in db2 : r.id = n
         IN  [db |-> db2, nextId |-> n + 1, writes |-> 1,
              req |-> [req EXCEPT !.PERFORM_LOGIN = TRUE,
                                  !.NEW_REFRESH_TOKEN = token]]
    ELSE [db |-> db, nextId |-> n, writes |-> 0, req |-> req]

\* The part of issue_tokens_on_login's wrapper after the wrapped resolver
\* returned: the table, the next id and the request it leaves.
issue_tokens_on_login(ctx, req, db, n, urandom, t) ==
    IF ctx.LOGIN_USER # None
    THEN LET db2 == save(db, n, ctx.LOGIN_USER, urandom, t)
             token == CHOOSE r \in db2 : r.id = n
         IN  [db |-> db2, nextId |-> n + 1, writes |-> 1,
              req |-> [req EXCEPT !.PERFORM_LOGIN = TRUE,
                                  !.NEW_REFRESH_TOKEN = token]]
    ELSE [db |-> db, nextId |-> n, writes |-> 0, req |-> req]

\* A wrapper that sets the login attributes before token.save() is known
\* to have succeeded.
issue_tokens_on_login_flags_before_save(ctx, req, db, n, urandom, t) ==
    [db |-> db, nextId |-> n, writes |-> 0,
     req |-> [req EXCEPT !.PERFORM_LOGIN = TRUE,
                         !.NEW_REFRESH_TOKEN =
                             [id |-> n, user |-> ctx.LOGIN_USER,
                              token |-> generate_token(urandom),
                              issued |-> t, revoked |-> None]]]

\* issue_tokens_on_login's wrapper when token.save() raises (the database
\* refuses the insert): the exception leaves the wrapper at line 28, the
\* lines that set PERFORM_LOGIN and NEW_REFRESH_TOKEN are not reached.
issue_tokens_on_login_save_raises(ctx, req, db, n, urandom, t) ==
    [db |-> db, nextId |-> n, writes |-> 0, req |-> req]

\* A logout whose update does not filter on the requester.
revoke_tokens_on_logout_of_any_user(ctx, req, db, t) ==
    IF ctx.LOGOUT_USER
    THEN LET hit(r) == r.token = ctx.refreshToken
             db2 == IF ctx.userID # None /\ ctx.refreshToken # None
                    THEN {IF hit(r) THEN [r EXCEPT !.revoked = t] ELSE r
                          : r \in db}
                    ELSE db
         IN  [db |-> db2,
              writes |-> IF ctx.userID # None /\ ctx.refreshToken # None
                         THEN 1 ELSE 0,
              req |-> [req EXCEPT !.PERFORM_LOGOUT = TRUE]]
    ELSE [db |-> db, writes |-> 0, req |-> req]

\* The part of revoke_tokens_on_logout's wrapper after the wrapped resolver
\* returned.  filter(token=, user_id=).update(revoked=now) writes every
\* row the filter matches.
revoke_tokens_on_logout(ctx, req, db, t) ==
    IF ctx.LOGOUT_USER
    THEN LET hit(r) == /\ r.token = ctx.refreshToken
                       /\ r.user = ctx.userID
             db2 == IF ctx.userID # None /\ ctx.refreshToken # None
                    THEN {IF hit(r) THEN [r EXCEPT !.revoked = t] ELSE r
                          : r \in db}
                    ELSE db
         IN  [db |-> db2,
              writes |-> IF ctx.userID # None /\ ctx.refreshToken # None
                         THEN 1 ELSE 0,
              req |-> [req EXCEPT !.PERFORM_LOGOUT = TRUE]]
    ELSE [db |-> db, writes |-> 0, req |-> req]

\* --------------------------------------------------------- decorators.py
\* A wrapper that calls the resolver for every requester.
login_required_for_anyone(ctx) == TRUE

\* login_required: TRUE when the wrapper calls the wrapped resolver, FALSE
\* when it returns None without calling it.
login_required(ctx) == ctx.userID # None

\* ------------------------------------------------------ graphql/schema.py
\* The text of a cookie equals a row's secret only when the client sent the
\* bare secret (which is no signed token): a signed token is never the
\* text of a secret.
cookie_text_is(cookie, secret) ==
    cookie.kind = "garbled" /\ cookie.refreshToken = secret

\* filter(user_id=, revoked__isnull=True).exclude(token=<text of the
\* JWT_REFRESH_TOKEN cookie>).update(revoked=now)
revoke_other_tokens(userID, req, db, t) ==
    {IF /\ r.user = userID
        /\ r.revoked = None
        /\ ~ (req.JWT_REFRESH_TOKEN.kind # "absent"
              /\ cookie_text_is(req.JWT_REFRESH_TOKEN, r.token))
     THEN [r EXCEPT !.revoked = t]
     ELSE r
     : r \in db}

\* A delete that does not filter on the requester.
RevokeToken_mutate_of_any_user(ctx, secret, db) ==
    LET m == {r \in db : r.token = secret}
    IN  IF Cardinality(m) = 1 THEN db \ m ELSE db

\* RevokeToken.mutate: get(user_id=, token=).delete(); the table after it
\* (unchanged when get raises DoesNotExist or MultipleObjectsReturned).
RevokeToken_mutate(ctx, secret, db) ==
    LET m == {r \in db : r.user = ctx.userID /\ r.token = secret}
    IN  IF Cardinality(m) = 1 THEN db \ m ELSE db

\* ---------------------------------------------------------------- view.py
NoOp == [op |-> "none", value |-> NoToken]

NoResponse == [JWT_ACCESS_TOKEN |-> NoOp, JWT_REFRESH_TOKEN |-> NoOp]

set_cookie(name, value, resp) ==
    [resp EXCEPT ![name] = [op |-> "set", value |-> value]]

delete_cookie(name, resp) ==
    [resp EXCEPT ![name] = [op |-> "delete", value |-> NoToken]]

\* A finish_response that applies one action only, a renewed access token
\* first.
finish_response_one_action(req, t) ==
    IF req.REFRESHED_ACCESS_TOKEN # NoToken
    THEN set_cookie("JWT_ACCESS_TOKEN", req.REFRESHED_ACCESS_TOKEN,
                    NoResponse)
    ELSE IF req.NEW_REFRESH_TOKEN # NoRow
    THEN set_cookie("JWT_REFRESH_TOKEN",
             generate_token_from_claims(
                 [NoToken EXCEPT !.kind = "refresh",
                      !.refreshToken = req.NEW_REFRESH_TOKEN.token],
                 JWT_REFRESH_TOKEN_EXPIRATION_DELTA, t),
             NoResponse)
    ELSE IF req.PERFORM_LOGOUT
    THEN delete_cookie("JWT_REFRESH_TOKEN",
                       delete_cookie("JWT_ACCESS_TOKEN", NoResponse))
    ELSE NoResponse

\* The response finish_response returns for a response without cookies.
finish_response(req, t) ==
    LET r1 == IF req.NEW_JWT_TOKEN # NoToken
              THEN set_cookie("JWT_ACCESS_TOKEN", req.NEW_JWT_TOKEN,
                              NoResponse)
              ELSE NoResponse
        r2 == IF req.NEW_REFRESH_TOKEN # NoRow
              THEN set_cookie("JWT_REFRESH_TOKEN",
                       generate_token_from_claims(
                           [NoToken EXCEPT !.kind = "refresh",
                                !.refreshToken = req.NEW_REFRESH_TOKEN.token],
                           JWT_REFRESH_TOKEN_EXPIRATION_DELTA, t),
                       r1)
              ELSE r1
        r3 == IF req.REMOVE_JWT_TOKEN
              THEN delete_cookie("JWT_ACCESS_TOKEN", r2)
              ELSE r2
        r4 == IF req.REMOVE_REFRESH_TOKEN
              THEN delete_cookie("JWT_REFRESH_TOKEN", r3)
              ELSE r3
    IN  r4

\* ------------------------------------------------------- the new request
\* A new HttpRequest with the cookies the client sent and none of the
\* attributes the extension, the wrappers or the view use.
NewRequest(access, refresh) ==
    [JWT_ACCESS_TOKEN |-> access, JWT_REFRESH_TOKEN |-> refresh,
     REFRESHED_ACCESS_TOKEN |-> NoToken, PERFORM_LOGOUT |-> FALSE,
     PERFORM_LOGIN |-> FALSE, NEW_REFRESH_TOKEN |-> NoRow,
     NEW_JWT_TOKEN |-> NoToken, REMOVE_JWT_TOKEN |-> FALSE,
     REMOVE_REFRESH_TOKEN |-> FALSE]

\* A new info.context.
NewContext ==
    [userID |-> None, refreshToken |-> None, refreshTokenObj |-> NoRow,
     LOGIN_USER |-> None, LOGOUT_USER |-> FALSE]

\* The signed tokens and other strings a client can put into a cookie: a
\* token is signed only by generate_token_from_claims, so a signed token is
\* one the server generated; the secret of a refresh-token cookie can be
\* read from its payload and sent bare.
BareSecrets ==
    {[GarbledCookie EXCEPT !.refreshToken = j.refreshToken]
     : j \in issuedRefresh}

CookieValues ==
    {NoToken, EmptyCookie, GarbledCookie} \cup minted \cup issuedRefresh

Init ==
    /\ now = 0
    /\ store = {}
    /\ nextId = 1
    /\ minted = {}
    /\ issuedRefresh = {}
    /\ self = UnsetState
    /\ request = NewRequest(NoToken, NoToken)
    /\ context = NewContext
    /\ response = NoResponse
    /\ pc = "idle"
    /\ fields = 0
    /\ raised = "none"
    /\ revokedLog = {}
    /\ dbReads = 0
    /\ dbWrites = 0

\* The history of first revocations after the table went from db to db2.
LogRevocations(log, db, db2, t) ==
    log \cup {[id |-> r.id, at |-> t]
              : r \in {x \in db : /\ x.revoked = None
                                  /\ \E y \in db2 : /\ y.id = x.id
                                                    /\ y.revoked # None}}

\* ------------------------------------------------------------------ steps
Tick ==
    /\ now < MaxTime
    /\ now' = now + 1
    /\ UNCHANGED <<store, nextId, minted, issuedRefresh, self, request,
                   context, response, pc, fields, raised, revokedLog,
                   dbReads, dbWrites>>

\* A request arrives with cookies access and refresh; on_request_start runs.
\* When on_request_start raises, no resolver runs and no attribute is set
\* on the request: the response carries no cookie.
StartRequest(access, refresh) ==
    LET req == NewRequest(access, refresh)
        o == on_request_start(self, req, store, now)
    IN  /\ pc \in {"idle", "failed"}
        /\ \/ o.generated = NoToken
           \/ o.generated \in minted
           \/ Cardinality(minted) < MaxMinted
        /\ request' = req
        /\ context' = NewContext
        /\ response' = NoResponse
        /\ self' = o.ext
        /\ raised' = o.raised
        /\ minted' = IF o.generated = NoToken THEN minted
                     ELSE minted \cup {o.generated}
        /\ dbReads' = o.reads
        /\ dbWrites' = o.writes
        /\ fields' = 0
        /\ pc' = IF o.raised = "none" THEN "resolving" ELSE "failed"
        /\ UNCHANGED <<now, store, nextId, issuedRefresh, revokedLog>>

\* A field without authentication side effects is resolved.
Query ==
    /\ pc = "resolving"
    /\ fields < MaxFields
    /\ request' = resolve_request(self, request)
    /\ context' = resolve_context(self, context)
    /\ fields' = fields + 1
    /\ UNCHANGED <<now, store, nextId, minted, issuedRefresh, self, response,
                   pc, raised, revokedLog, dbReads, dbWrites>>

\* A login field wrapped with issue_tokens_on_login is resolved: the
\* resolver (AuthenticateUser.mutate) authenticates user u, revokes the
\* user's other tokens when the deployment's
\* REVOKE_OTHER_TOKENS_ON_AUTH_FOR_USER says so, and sets LOGIN_USER.
\* urandom returns 160 random bits: here a value it never returned before,
\* the next unused number.
Login(u, revokeOthers) ==
    LET req1 == resolve_request(self, request)
        ctx1 == [resolve_context(self, context) EXCEPT !.LOGIN_USER = u]
        db1 == IF revokeOthers
               THEN revoke_other_tokens(u, req1, store, now)
               ELSE store
        w == issue_tokens_on_login(ctx1, req1, db1, nextId, nextId, now)
    IN  /\ pc = "resolving"
        /\ fields < MaxFields
        /\ nextId <= MaxRows
        /\ request' = w.req
        /\ context' = ctx1
        /\ store' = w.db
        /\ nextId' = w.nextId
        /\ revokedLog' = LogRevocations(revokedLog, store, w.db, now)
        /\ fields' = fields + 1
        /\ UNCHANGED <<now, minted, issuedRefresh, self, response, pc, raised,
                       dbReads, dbWrites>>

\* A login field is resolved and the resolver raises AuthError (wrong
\* credentials, or the user may not log in): the wrapper does nothing.
LoginFailed ==
    /\ pc = "resolving"
    /\ fields < MaxFields
    /\ request' = resolve_request(self, request)
    /\ context' = resolve_context(self, context)
    /\ fields' = fields + 1
    /\ UNCHANGED <<now, store, nextId, minted, issuedRefresh, self, response,
                   pc, raised, revokedLog, dbReads, dbWrites>>

\* A logout field wrapped with revoke_tokens_on_logout is resolved; the
\* resolver sets LOGOUT_USER.
Logout ==
    LET req1 == resolve_request(self, request)
        ctx1 == [resolve_context(self, context) EXCEPT !.LOGOUT_USER = TRUE]
        w == revoke_tokens_on_logout(ctx1, req1, store, now)
    IN  /\ pc = "resolving"
        /\ fields < MaxFields
        /\ request' = w.req
        /\ context' = ctx1
        /\ store' = w.db
        /\ revokedLog' = LogRevocations(revokedLog, store, w.db, now)
        /\ fields' = fields + 1
        /\ UNCHANGED <<now, nextId, minted, issuedRefresh, self, response, pc,
                       raised, dbReads, dbWrites>>

\* RevokeOtherTokens.mutate is resolved for a logged-in requester.
RevokeOtherTokens ==
    LET req1 == resolve_request(self, request)
        ctx1 == resolve_context(self, context)
    IN  /\ pc = "resolving"
        /\ fields < MaxFields
        /\ ctx1.userID # None
        /\ request' = req1
        /\ context' = ctx1
        /\ store' = revoke_other_tokens(ctx1.userID, req1, store, now)
        /\ revokedLog' = LogRevocations(revokedLog, store, store', now)
        /\ fields' = fields + 1
        /\ UNCHANGED <<now, nextId, minted, issuedRefresh, self, response, pc,
                       raised, dbReads, dbWrites>>

\* RevokeToken.mutate is resolved for a logged-in requester with the
\* secret of one of the rows.
RevokeToken(secret) ==
    LET req1 == resolve_request(self, request)
        ctx1 == resolve_context(self, context)
    IN  /\ pc = "resolving"
        /\ fields < MaxFields
        /\ ctx1.userID # None
        /\ request' = req1
        /\ context' = ctx1
        /\ store' = RevokeToken_mutate(ctx1, secret, store)
        /\ fields' = fields + 1
        /\ UNCHANGED <<now, nextId, minted, issuedRefresh, self, response, pc,
                       raised, revokedLog, dbReads, dbWrites>>

\* The view function returned; finish_response writes the cookies.  The
\* request and its context are discarded after the response is sent.
FinishResponse ==
    /\ pc = "resolving"
    /\ response' = finish_response(request, now)
    /\ issuedRefresh' =
           IF response'.JWT_REFRESH_TOKEN.op = "set"
           THEN issuedRefresh \cup {response'.JWT_REFRESH_TOKEN.value}
           ELSE issuedRefresh
    /\ request' = NewRequest(NoToken, NoToken)
    /\ context' = NewContext
    /\ fields' = 0
    /\ dbReads' = 0
    /\ dbWrites' = 0
    /\ pc' = "idle"
    /\ UNCHANGED <<now, store, nextId, minted, self, raised, revokedLog>>

Next ==
    \/ Tick
    \/ \E a \in CookieValues, r \in CookieValues : StartRequest(a, r)
    \/ Query
    \/ \E u \in Users, ro \in BOOLEAN : Login(u, ro)
    \/ LoginFailed
    \/ Logout
    \/ RevokeOtherTokens
    \/ \E r \in store : RevokeToken(r.token)
    \/ FinishResponse

Spec == Init /\ [][Next]_vars

\* ============================================================ properties
\* The steps of a request.
StartStep ==
    /\ pc \in {"idle", "failed"}
    /\ pc' \in {"resolving", "failed"}
    /\ now' = now

FieldStep == fields' = fields + 1

FinishStep == pc = "resolving" /\ pc' = "idle"

LoginStep ==
    FieldStep /\ context.LOGIN_USER = None /\ context'.LOGIN_USER # None

LogoutStep == FieldStep /\ ~ context.LOGOUT_USER /\ context'.LOGOUT_USER

\* The cookie holds a signed token whose payload the codec returns at t.
Decodes(cookie, t) == decode_payload_from_token(cookie, t).code = "ok"

\* The cookie is a refresh-token cookie that decodes to secret.
CarriesSecret(cookie, secret, t) ==
    /\ cookie.kind = "refresh"
    /\ Decodes(cookie, t)
    /\ cookie.refreshToken = secret

\* The row is non-revoked and within the refresh-token lifetime at t.
LiveRow(r, t) ==
    /\ r.revoked = None
    /\ t <= r.issued + JWT_REFRESH_TOKEN_EXPIRATION_DELTA

Ids(db) == {r.id : r \in db}

BothCookiesCleared(resp) ==
    /\ resp.JWT_ACCESS_TOKEN.op = "delete"
    /\ resp.JWT_REFRESH_TOKEN.op = "delete"

\* C1: a request whose access-token cookie is absent, expired or invalid and
\* whose refresh-token cookie decodes to the secret of a non-revoked row
\* within its lifetime is resolved by on_request_start to the row's owner,
\* and exactly one access token, generated now for that owner, is pending
\* for the response.
C1_RenewalResolvesOwner ==
    [][\A r \in store :
          ( /\ StartStep
            /\ ~ Decodes(request'.JWT_ACCESS_TOKEN, now)
            /\ CarriesSecret(request'.JWT_REFRESH_TOKEN, r.token, now)
            /\ LiveRow(r, now) )
          => /\ pc' = "resolving"
             /\ self'.userID = r.user
             /\ self'.new_JWT_access_token.kind = "access"
             /\ self'.new_JWT_access_token.userID = r.user
             /\ self'.new_JWT_access_token.iat = now
             /\ self'.new_JWT_access_token \in minted'
             /\ minted' \ minted \subseteq {self'.new_JWT_access_token}
             /\ ~ self'.remove_auth_cookies
             /\ dbReads' = 1]_vars

\* C1 witness: a request with an expired access-token cookie was renewed.
C1_Witness ==
    /\ pc = "resolving"
    /\ request.JWT_ACCESS_TOKEN.kind = "access"
    /\ ~ Decodes(request.JWT_ACCESS_TOKEN, now)
    /\ self.new_JWT_access_token # NoToken
    /\ self.userID # None

\* C2: every cookie action scheduled on the request is applied by
\* finish_response: a refreshed access token is set as the access-token
\* cookie, a scheduled removal deletes both cookies.
C2_ScheduledCookieActionsApplied ==
    [][FinishStep
          => /\ request.REFRESHED_ACCESS_TOKEN # NoToken
                => response'.JWT_ACCESS_TOKEN =
                       [op |-> "set", value |-> request.REFRESHED_ACCESS_TOKEN]
             /\ request.PERFORM_LOGOUT => BothCookiesCleared(response')]_vars

C4_RevokedRefreshTokenIsAnonymous ==
    [][/\ \A r \in store :
             ( /\ StartStep
               /\ request'.JWT_ACCESS_TOKEN.kind \in {"absent", "empty"}
               /\ CarriesSecret(request'.JWT_REFRESH_TOKEN, r.token, now)
               /\ r.revoked # None )
             => /\ pc' = "resolving"
                /\ self'.userID = None
                /\ self'.new_JWT_access_token = NoToken
                /\ minted' = minted
                /\ self'.remove_auth_cookies
       /\ ( /\ FieldStep
            /\ self.remove_auth_cookies
            /\ self.new_JWT_access_token = NoToken )
          => request'.PERFORM_LOGOUT]_vars

\* C4 witness: such a request after on_request_start.
C4_Witness ==
    /\ pc = "resolving"
    /\ request.JWT_ACCESS_TOKEN.kind = "absent"
    /\ self.remove_auth_cookies
    /\ self.userID = None
    /\ \E r \in store :
          /\ CarriesSecret(request.JWT_REFRESH_TOKEN, r.token, now)
          /\ r.revoked # None

\* C5: a logout in a request whose session has the active refresh token X
\* revokes X, and the response of that request clears both cookies.
C5_LogoutRevokesAndClears ==
    [][/\ \A x \in store :
             ( /\ LogoutStep
               /\ self.userID = x.user
               /\ self.refreshToken = x.token
               /\ x.revoked = None )
             => \E y \in store' : y.id = x.id /\ y.revoked # None
       /\ ( /\ FinishStep
            /\ context.LOGOUT_USER
            /\ \E x \in store : /\ x.user = context.userID
                                /\ x.token = context.refreshToken )
          => BothCookiesCleared(response')]_vars

\* C6: a successful login creates exactly one row, active and owned by
\* LOGIN_USER, schedules no access token of its own, and the response
\* sets the refresh-token cookie to that row's secret and sets no
\* access-token cookie.
C6_LoginIssuesOneRefreshToken ==
    [][/\ LoginStep
          => /\ \E r \in store' :
                   /\ Ids(store') \ Ids(store) = {r.id}
                   /\ r.user = context'.LOGIN_USER
                   /\ r.revoked = None
                   /\ request'.NEW_REFRESH_TOKEN = r
             /\ minted' = minted
             /\ request'.NEW_JWT_TOKEN = NoToken
             /\ request'.REFRESHED_ACCESS_TOKEN = self.new_JWT_access_token
       /\ (FinishStep /\ request.PERFORM_LOGIN)
          => /\ response'.JWT_REFRESH_TOKEN.op = "set"
             /\ response'.JWT_REFRESH_TOKEN.value.kind = "refresh"
             /\ response'.JWT_REFRESH_TOKEN.value.refreshToken
                    = request.NEW_REFRESH_TOKEN.token
             /\ response'.JWT_ACCESS_TOKEN.op # "set"]_vars

\* C6 witness: the response of a login request.
C6_Witness ==
    /\ pc = "idle"
    /\ response.JWT_REFRESH_TOKEN.op = "set"
    /\ \E r \in store :
          /\ r.token = response.JWT_REFRESH_TOKEN.value.refreshToken
          /\ r.revoked = None

\* The lookup of _get_refresh_token_object for a secret.
Lookup(secret) ==
    _get_refresh_token_object([UnsetState EXCEPT !.refreshToken = secret],
                              store, now)

ResolvedFrom(ext, req, id) ==
    /\ ext.userID # None
    /\ \/ ext.refreshTokenObj.id = id
       \/ /\ ext.new_JWT_access_token = NoToken
          /\ req.JWT_ACCESS_TOKEN.rt = id

C9_NoStateCarriedOver ==
    [][/\ StartStep
          => /\ self' = on_request_start(UnsetState, request', store, now).ext
             /\ raised'
                    = on_request_start(UnsetState, request', store, now).raised
       /\ FieldStep
          => /\ context'.userID = self.userID
             /\ context'.refreshToken = self.refreshToken
             /\ context'.refreshTokenObj = self.refreshTokenObj
             /\ request'.REFRESHED_ACCESS_TOKEN = self.new_JWT_access_token
             /\ request'.PERFORM_LOGOUT
                    => \/ self.remove_auth_cookies
                       \/ context'.LOGOUT_USER]_vars

\* C9 witness: an instance that resolved a user for an earlier request (it
\* generated an access token) handles an anonymous request.
C9_Witness ==
    /\ pc = "resolving"
    /\ minted # {}
    /\ self = UnsetState
    /\ request.JWT_ACCESS_TOKEN.kind = "absent"
    /\ request.JWT_REFRESH_TOKEN.kind = "absent"

\* What the client can observe of on_request_start's outcome.
Observable(p, ext, exc) ==
    [resolving |-> p, userID |-> ext.userID,
     newAccessToken |-> ext.new_JWT_access_token,
     removeCookies |-> ext.remove_auth_cookies, error |-> exc]

\* The secret has no row / a revoked row / a non-revoked row past lifetime.
NoRowFor(secret) == \A r \in store : r.token # secret

RevokedRowFor(secret) ==
    \E r \in store : r.token = secret /\ r.revoked # None

ExpiredRowFor(secret) ==
    \E r \in store :
        /\ r.token = secret
        /\ r.revoked = None
        /\ r.issued + JWT_REFRESH_TOKEN_EXPIRATION_DELTA < now

\* C10: for a request without a valid access token whose refresh-token
\* cookie decodes, the outcome the client observes is the same (anonymous,
\* cookie removal scheduled, no access token, no error) whether the secret
\* has no row, a revoked row or a row past the refresh-token lifetime.
C10_NotFoundIsUniform ==
    [][( /\ StartStep
         /\ ~ Decodes(request'.JWT_ACCESS_TOKEN, now)
         /\ request'.JWT_REFRESH_TOKEN.kind = "refresh"
         /\ Decodes(request'.JWT_REFRESH_TOKEN, now)
         /\ \/ NoRowFor(request'.JWT_REFRESH_TOKEN.refreshToken)
            \/ RevokedRowFor(request'.JWT_REFRESH_TOKEN.refreshToken)
            \/ ExpiredRowFor(request'.JWT_REFRESH_TOKEN.refreshToken) )
          => /\ Observable(pc', self', raised')
                    = [resolving |-> "resolving", userID |-> None,
                       newAccessToken |-> NoToken, removeCookies |-> TRUE,
                       error |-> "none"]]_vars

\* C10 witness: such a request whose secret has no row (the row was deleted).
C10_Witness ==
    /\ pc = "resolving"
    /\ fields = 0
    /\ ~ Decodes(request.JWT_ACCESS_TOKEN, now)
    /\ request.JWT_REFRESH_TOKEN.kind = "refresh"
    /\ Decodes(request.JWT_REFRESH_TOKEN, now)
    /\ NoRowFor(request.JWT_REFRESH_TOKEN.refreshToken)
    /\ self.remove_auth_cookies

\* C15: a request authenticated through its refresh-token cookie (renewal)
\* leaves every row of the table as it was (secret, issue time, revocation
\* time), and unless a login field was resolved in the same request its
\* response writes no refresh-token cookie.
C15_RenewalNeverRotates ==
    [][ /\ (StartStep /\ self'.new_JWT_access_token # NoToken)
           => store' = store
        /\ ( /\ FinishStep
             /\ self.new_JWT_access_token # NoToken
             /\ ~ request.PERFORM_LOGIN )
           => response'.JWT_REFRESH_TOKEN.op = "none" ]_vars

\* A renewal request was answered, without a refresh-token cookie.
C15_Witness ==
    /\ pc = "idle"
    /\ self.new_JWT_access_token # NoToken
    /\ response.JWT_REFRESH_TOKEN.op = "none"
    /\ \E r \in store : r.token = self.refreshToken /\ r.revoked = None

\* The post-processing actions a request has pending at finalization.
PendingAccessToken(req) ==
    req.REFRESHED_ACCESS_TOKEN # NoToken \/ req.NEW_JWT_TOKEN # NoToken

PendingRefreshToken(req) == req.NEW_REFRESH_TOKEN # NoRow

PendingClear(req) ==
    req.PERFORM_LOGOUT \/ req.REMOVE_JWT_TOKEN \/ req.REMOVE_REFRESH_TOKEN

\* The post-processing actions a response shows.
AppliedAccessToken(resp) == resp.JWT_ACCESS_TOKEN.op = "set"

AppliedRefreshToken(resp) == resp.JWT_REFRESH_TOKEN.op = "set"

AppliedClear(resp) ==
    resp.JWT_ACCESS_TOKEN.op = "delete" \/ resp.JWT_REFRESH_TOKEN.op = "delete"

MaxStoreRows == 3
NumSecrets == 2

Secrets == 1..NumSecrets

\* Meta.unique_together ("token", "revoked") as the database enforces it:
\* two rows with the same token and the same non-NULL revoked are rejected;
\* rows whose revoked is NULL are never equal to one another.
unique_together(db) ==
    \A r1 \in db, r2 \in db :
        ( /\ r1.id # r2.id
          /\ r1.token = r2.token
          /\ r1.revoked # None
          /\ r2.revoked # None )
        => r1.revoked # r2.revoked

\* token.save() of issue_tokens_on_login's generate_refresh_token for user
\* u, urandom returning the bytes given.
StoreCreate(u, urandom) ==
    /\ nextId <= MaxStoreRows
    /\ store' = save(store, nextId, u, urandom, now)
    /\ nextId' = nextId + 1
    /\ UNCHANGED <<now, minted, issuedRefresh, self, request, context,
                   response, pc, fields, raised, revokedLog, dbReads,
                   dbWrites>>

\* The update of revoke_tokens_on_logout in a request resolved to the owner
\* of the active row r through r's secret.  An update that would leave two
\* rows with the same (token, revoked) fails with IntegrityError and
\* changes nothing.
StoreLogout(r) ==
    LET ctx == [NewContext EXCEPT !.userID = r.user,
                                  !.refreshToken = r.token,
                                  !.LOGOUT_USER = TRUE]
        w == revoke_tokens_on_logout(ctx, NewRequest(NoToken, NoToken),
                                     store, now)
    IN  /\ r.revoked = None
        /\ store' = IF unique_together(w.db) THEN w.db ELSE store
        /\ store' # store
        /\ revokedLog' = LogRevocations(revokedLog, store, store', now)
        /\ UNCHANGED <<now, nextId, minted, issuedRefresh, self, request,
                       context, response, pc, fields, raised, dbReads,
                       dbWrites>>

\* The update of revoke_other_tokens for user u in a request without a
\* refresh-token cookie, with the same IntegrityError.
StoreRevokeOthers(u) ==
    LET db2 == revoke_other_tokens(u, NewRequest(NoToken, NoToken), store,
                                   now)
    IN  /\ store' = IF unique_together(db2) THEN db2 ELSE store
        /\ store' # store
        /\ revokedLog' = LogRevocations(revokedLog, store, store', now)
        /\ UNCHANGED <<now, nextId, minted, issuedRefresh, self, request,
                       context, response, pc, fields, raised, dbReads,
                       dbWrites>>

\* The delete of RevokeToken.mutate by the owner of row r.
StoreDelete(r) ==
    /\ store' = RevokeToken_mutate([NewContext EXCEPT !.userID = r.user],
                                   r.token, store)
    /\ store' # store
    /\ UNCHANGED <<now, nextId, minted, issuedRefresh, self, request,
                   context, response, pc, fields, raised, revokedLog,
                   dbReads, dbWrites>>

NextStore ==
    \/ Tick
    \/ \E u \in Users, urandom \in Secrets : StoreCreate(u, urandom)
    \/ \E r \in store : StoreLogout(r)
    \/ \E u \in Users : StoreRevokeOthers(u)
    \/ \E r \in store : StoreDelete(r)

SpecStore == Init /\ [][NextStore]_vars

\* C11: in every reachable table, at most one row with revoked NULL exists
\* for any secret value: creating a token never adds a second active row
\* with a secret an active row already holds.
C11_OneActiveRowPerSecret ==
    \A r1 \in store, r2 \in store :
        ( /\ r1.revoked = None
          /\ r2.revoked = None
          /\ r1.token = r2.token )
        => r1.id = r2.id

\* ============================================================ one client
\* One client with one cookie jar: every request carries the cookies the
\* earlier responses left in the jar.  Between two requests the jar is held
\* in the cookies of the (new) request.  A request resolves up to
\* MaxClientFields fields; the table holds up to MaxClientRows rows.
MaxClientRows == 3
MaxClientFields == 2
MaxClientTime == 3

\* The cookie a response leaves in the jar in place of old.
jar_after(old, cookie_op) ==
    IF cookie_op.op = "set" THEN cookie_op.value
    ELSE IF cookie_op.op = "delete" THEN NoToken
    ELSE old

\* Time passes for the client and the server.
ClientTick ==
    /\ now < MaxClientTime
    /\ now' = now + 1
    /\ UNCHANGED <<store, nextId, minted, issuedRefresh, self, request,
                   context, response, pc, fields, raised, revokedLog,
                   dbReads, dbWrites>>

\* The client sends a request with the cookies of its jar.
ClientRequest ==
    StartRequest(request.JWT_ACCESS_TOKEN, request.JWT_REFRESH_TOKEN)

\* A login field wrapped with issue_tokens_on_login, as Login.
ClientLogin(u, revokeOthers) ==
    LET req1 == resolve_request(self, request)
        ctx1 == [resolve_context(self, context) EXCEPT !.LOGIN_USER = u]
        db1 == IF revokeOthers
               THEN revoke_other_tokens(u, req1, store, now)
               ELSE store
        w == issue_tokens_on_login(ctx1, req1, db1, nextId, nextId, now)
    IN  /\ pc = "resolving"
        /\ fields < MaxClientFields
        /\ nextId <= MaxClientRows
        /\ request' = w.req
        /\ context' = ctx1
        /\ store' = w.db
        /\ nextId' = w.nextId
        /\ revokedLog' = LogRevocations(revokedLog, store, w.db, now)
        /\ fields' = fields + 1
        /\ UNCHANGED <<now, minted, issuedRefresh, self, response, pc, raised,
                       dbReads, dbWrites>>

\* A login field whose resolver sets LOGIN_USER and whose token.save()
\* raises: the exception escapes the wrapper and is reported for the field.
ClientLoginSaveRaises(u) ==
    LET req1 == resolve_request(self, request)
        ctx1 == [resolve_context(self, context) EXCEPT !.LOGIN_USER = u]
        w == issue_tokens_on_login_save_raises(ctx1, req1, store, nextId,
                                               nextId, now)
    IN  /\ pc = "resolving"
        /\ fields < MaxClientFields
        /\ request' = w.req
        /\ context' = ctx1
        /\ store' = w.db
        /\ nextId' = w.nextId
        /\ raised' = "DatabaseError"
        /\ fields' = fields + 1
        /\ UNCHANGED <<now, minted, issuedRefresh, self, response, pc,
                       revokedLog, dbReads, dbWrites>>

\* A logout field: a resolver that sets LOGOUT_USER, wrapped with
\* login_required and then with revoke_tokens_on_logout (LogoutUser of
\* graphql/schema.py is login_required).
ClientLogout ==
    LET req1 == resolve_request(self, request)
        ctx1 == resolve_context(self, context)
        ctx2 == IF login_required(ctx1)
                THEN [ctx1 EXCEPT !.LOGOUT_USER = TRUE]
                ELSE ctx1
        w == revoke_tokens_on_logout(ctx2, req1, store, now)
    IN  /\ pc = "resolving"
        /\ fields < MaxClientFields
        /\ request' = w.req
        /\ context' = ctx2
        /\ store' = w.db
        /\ revokedLog' = LogRevocations(revokedLog, store, w.db, now)
        /\ fields' = fields + 1
        /\ UNCHANGED <<now, nextId, minted, issuedRefresh, self, response, pc,
                       raised, dbReads, dbWrites>>

\* RevokeOtherTokens.mutate for a logged-in requester, as RevokeOtherTokens.
ClientRevokeOtherTokens ==
    LET req1 == resolve_request(self, request)
        ctx1 == resolve_context(self, context)
    IN  /\ pc = "resolving"
        /\ fields < MaxClientFields
        /\ ctx1.userID # None
        /\ request' = req1
        /\ context' = ctx1
        /\ store' = revoke_other_tokens(ctx1.userID, req1, store, now)
        /\ revokedLog' = LogRevocations(revokedLog, store, store', now)
        /\ fields' = fields + 1
        /\ UNCHANGED <<now, nextId, minted, issuedRefresh, self, response, pc,
                       raised, dbReads, dbWrites>>

\* finish_response writes the cookies and the client stores them.
ClientFinish ==
    /\ pc = "resolving"
    /\ response' = finish_response(request, now)
    /\ issuedRefresh' =
           IF response'.JWT_REFRESH_TOKEN.op = "set"
           THEN issuedRefresh \cup {response'.JWT_REFRESH_TOKEN.value}
           ELSE issuedRefresh
    /\ request' = NewRequest(jar_after(request.JWT_ACCESS_TOKEN,
                                       response'.JWT_ACCESS_TOKEN),
                             jar_after(request.JWT_REFRESH_TOKEN,
                                       response'.JWT_REFRESH_TOKEN))
    /\ context' = NewContext
    /\ fields' = 0
    /\ dbReads' = 0
    /\ dbWrites' = 0
    /\ pc' = "idle"
    /\ UNCHANGED <<now, store, nextId, minted, self, raised, revokedLog>>

NextClient ==
    \/ ClientTick
    \/ ClientRequest
    \/ \E u \in Users, ro \in BOOLEAN : ClientLogin(u, ro)
    \/ \E u \in Users : ClientLoginSaveRaises(u)
    \/ ClientLogout
    \/ ClientRevokeOtherTokens
    \/ ClientFinish

SpecClient == Init /\ [][NextClient]_vars

\* A step in which the RevokeOtherTokens field of a logged-in requester is
\* resolved: a field step that is neither a login nor a logout.
RevokeOthersStep ==
    /\ FieldStep
    /\ self.userID # None
    /\ context'.LOGIN_USER = None
    /\ ~context'.LOGOUT_USER
    /\ raised' = raised

\* C12: when a requester whose refresh-token cookie carries the secret of an
\* active row c of its own resolves RevokeOtherTokens, afterwards c is
\* unchanged, every other row of that user is revoked, and the rows of the
\* other users are unchanged.
C12_RevokeOthersKeepsCurrent ==
    [][ \A c \in store :
          ( /\ RevokeOthersStep
            /\ c.user = self.userID
            /\ c.revoked = None
            /\ CarriesSecret(request.JWT_REFRESH_TOKEN, c.token, now) )
          => /\ c \in store'
             /\ \A r \in store' :
                  (r.user = c.user /\ r.id # c.id) => r.revoked # None
             /\ \A r \in store : r.user # c.user => r \in store' ]_vars

\* The rows whose secret a response handed to the client in a refresh-token
\* cookie.
IssuedToClient ==
    {r \in store : \E c \in issuedRefresh : c.refreshToken = r.token}

\* C13: after any sequence of logins, renewals and logouts of one client, at
\* most one of the rows issued to that client is non-revoked and within its
\* lifetime.
C13_OneLiveRowPerClient ==
    Cardinality({r \in IssuedToClient : LiveRow(r, now)}) <= 1

\* C17: the resolver wrapped with login_required (it sets LOGOUT_USER) is
\* called only for a requester whose userID is set; for an anonymous
\* requester the field returns without calling it: LOGOUT_USER stays unset,
\* the table is not touched and the request carries nothing but what
\* resolve put there.
C17_LoginRequiredGuardsResolver ==
    [][ /\ (FieldStep /\ ~ context.LOGOUT_USER /\ context'.LOGOUT_USER)
           => (self.userID # None /\ context'.userID = self.userID)
        /\ (FieldStep /\ self.userID = None /\ context'.LOGIN_USER = None)
           => /\ ~ context'.LOGOUT_USER
              /\ store' = store
              /\ request' = resolve_request(self, request) ]_vars

\* An anonymous request resolved the login_required field (no login field
\* before it) and the resolver was not called.
C17_Witness ==
    /\ pc = "resolving"
    /\ fields >= 1
    /\ self.userID = None
    /\ context.LOGIN_USER = None
    /\ raised = "none"
    /\ ~ context.LOGOUT_USER

\* C19: a row whose revoked is set is left as it is by every later step
\* (logout, revoke-others, login, renewal): revoking again does not move
\* the revocation time.
C19_RevokedRowsNeverChange ==
    [][ \A r \in store : r.revoked # None => r \in store' ]_vars

NumLogins == 2
MaxLoginRows == 3

Workers == 1..NumLogins

InitLogins ==
    /\ now = 0
    /\ store = {}
    /\ nextId = 1
    /\ minted = {}
    /\ issuedRefresh = {}
    /\ self = UnsetState
    /\ request = [p \in Workers |-> NewRequest(NoToken, NoToken)]
    /\ context = [p \in Workers |-> NewContext]
    /\ response = NoResponse
    /\ pc = [p \in Workers |-> "idle"]
    /\ fields = 0
    /\ raised = "none"
    /\ revokedLog = {}
    /\ dbReads = 0
    /\ dbWrites = 0

\* AuthenticateUser.mutate in worker p, for a user the policy applies to:
\* revoke_other_tokens runs, then the resolver returns the user (LOGIN_USER).
LoginMutate(p, u) ==
    /\ pc[p] = "idle"
    /\ nextId <= MaxLoginRows
    /\ store' = revoke_other_tokens(u, request[p], store, now)
    /\ revokedLog' = LogRevocations(revokedLog, store, store', now)
    /\ context' = [context EXCEPT ![p].LOGIN_USER = u]
    /\ pc' = [pc EXCEPT ![p] = "mutated"]
    /\ UNCHANGED <<now, nextId, minted, issuedRefresh, self, request,
                   response, fields, raised, dbReads, dbWrites>>

\* The rest of issue_tokens_on_login's wrapper in worker p: the row is
\* created and the login attributes are set.  The login is complete.
LoginIssue(p) ==
    LET w == issue_tokens_on_login(context[p], request[p], store, nextId,
                                   nextId, now)
    IN  /\ pc[p] = "mutated"
        /\ store' = w.db
        /\ nextId' = w.nextId
        /\ request' = [request EXCEPT ![p] = w.req]
        /\ pc' = [pc EXCEPT ![p] = "issued"]
        /\ UNCHANGED <<now, minted, issuedRefresh, self, context, response,
                       fields, raised, revokedLog, dbReads, dbWrites>>

\* finish_response of worker p writes the cookies of the login; the worker
\* is free for the next request.
LoginFinish(p) ==
    /\ pc[p] = "issued"
    /\ response' = finish_response(request[p], now)
    /\ issuedRefresh' =
           IF response'.JWT_REFRESH_TOKEN.op = "set"
           THEN issuedRefresh \cup {response'.JWT_REFRESH_TOKEN.value}
           ELSE issuedRefresh
    /\ request' = [request EXCEPT ![p] = NewRequest(NoToken, NoToken)]
    /\ context' = [context EXCEPT ![p] = NewContext]
    /\ pc' = [pc EXCEPT ![p] = "idle"]
    /\ UNCHANGED <<now, store, nextId, minted, self, fields, raised,
                   revokedLog, dbReads, dbWrites>>

NextLogins ==
    \/ ClientTick
    \/ \E p \in Workers, u \in Users : LoginMutate(p, u)
    \/ \E p \in Workers : LoginIssue(p)
    \/ \E p \in Workers : LoginFinish(p)

SpecLogins == InitLogins /\ [][NextLogins]_vars

\* No login of user u is between its two statements.
NoLoginInFlight(u) ==
    \A p \in Workers : ~ (pc[p] = "mutated" /\ context[p].LOGIN_USER = u)

\* C14: whenever no login of a user is in flight and at least one login of
\* that user has completed, the user has exactly one row with revoked NULL,
\* whatever the interleaving of the logins was.
C14_OneActiveTokenAfterLogins ==
    \A u \in Users :
        (NoLoginInFlight(u) /\ \E r \in store : r.user = u)
        => Cardinality({r \in store : r.user = u /\ r.revoked = None}) = 1

\* ======================================================== authentication
\* authentication.py against a user table.  Here request holds the arguments
\* of one login attempt, response what authenticate returned or raised, and
\* raised the code of the AuthError ("none" when a user was returned).
NumUsernames == 4
NumEmails == 3
NumPasswords == 2

\* The rows of the user model (username, email, password).  Usernames are
\* unique, emails are not; username NumUsernames and email NumEmails belong
\* to no account.
Accounts ==
    { [id |-> 1, username |-> 1, email |-> 1, password |-> 1],
      [id |-> 2, username |-> 2, email |-> 2, password |-> 2],
      [id |-> 3, username |-> 3, email |-> 2, password |-> 1] }

\* An email argument that validate_email's pattern does not match.
MalformedEmail == 0

Usernames == 1..NumUsernames
Emails == 1..NumEmails
Passwords == 1..NumPasswords

AuthError(message, code) == [user |-> None, code |-> code, message |-> message]

Authenticated(a) == [user |-> a.id, code |-> "none", message |-> ""]

NoAttempt == [username |-> None, email |-> None, password |-> None]

NoAnswer == [user |-> None, code |-> "none", message |-> ""]

\* django.contrib.auth.authenticate, then the error of lines 16-20.
authenticate_with_username(password, username) ==
    LET m == {a \in Accounts : a.username = username /\ a.password = password}
    IN  IF m = {}
        THEN AuthError(IF username = None
                       THEN "The email or password you entered is wrong"
                       ELSE "The username or password you entered is wrong",
                       "INVALID_CREDENTIALS")
        ELSE Authenticated(CHOOSE a \in m : TRUE)

authenticate_with_email(password, email) ==
    LET m == {a \in Accounts : a.email = email}
    IN  IF email = MalformedEmail
        THEN AuthError("You have entered an invalid email address",
                       "INVALID_EMAIL")
        ELSE IF m = {}
        THEN AuthError("An account with this email address does not exist",
                       "EMAIL_NOT_FOUND")
        ELSE IF Cardinality(m) > 1
        THEN AuthError("We cannot authenticate you with your email address, please enter your username",
                       "EMAIL_NOT_UNIQUE")
        ELSE authenticate_with_username(password,
                                        (CHOOSE a \in m : TRUE).username)

authenticate(password, username, email) ==
    IF username = None /\ email = None
    THEN AuthError("Email or username is required for authentication",
                   "EMAIL_USERNAME_MISSING")
    ELSE IF email # None
    THEN authenticate_with_email(password, email)
    ELSE authenticate_with_username(password, username)

InitAuth ==
    /\ now = 0
    /\ store = {}
    /\ nextId = 1
    /\ minted = {}
    /\ issuedRefresh = {}
    /\ self = UnsetState
    /\ request = NoAttempt
    /\ context = NewContext
    /\ response = NoAnswer
    /\ pc = "idle"
    /\ fields = 0
    /\ raised = "none"
    /\ revokedLog = {}
    /\ dbReads = 0
    /\ dbWrites = 0

\* A login attempt arrives.
AuthAttempt(username, email, password) ==
    /\ pc = "idle"
    /\ request' = [username |-> username, email |-> email,
                   password |-> password]
    /\ pc' = "resolving"
    /\ UNCHANGED <<now, store, nextId, minted, issuedRefresh, self, context,
                   response, fields, raised, revokedLog, dbReads, dbWrites>>

\* authenticate is called with the arguments of the attempt.
AuthResolve ==
    /\ pc = "resolving"
    /\ response' = authenticate(request.password, request.username,
                                request.email)
    /\ raised' = response'.code
    /\ pc' = "idle"
    /\ UNCHANGED <<now, store, nextId, minted, issuedRefresh, self, request,
                   context, fields, revokedLog, dbReads, dbWrites>>

NextAuth ==
    \/ \E username \in Usernames \cup {None},
          email \in Emails \cup {None, MalformedEmail},
          password \in Passwords : AuthAttempt(username, email, password)
    \/ AuthResolve

SpecAuth == InitAuth /\ [][NextAuth]_vars

\* The identity the attempt names (its email when given, else its username)
\* belongs to no account.
UnknownIdentity(attempt) ==
    IF attempt.email # None
    THEN /\ attempt.email # MalformedEmail
         /\ \A a \in Accounts : a.email # attempt.email
    ELSE /\ attempt.username # None
         /\ \A a \in Accounts : a.username # attempt.username

\* The identity the attempt names belongs to one account, whose password is
\* not the attempt's.
WrongPassword(attempt) ==
    LET m == IF attempt.email # None
             THEN {a \in Accounts : a.email = attempt.email}
             ELSE {a \in Accounts : a.username = attempt.username}
    IN  /\ Cardinality(m) = 1
        /\ \A a \in m : a.password # attempt.password

GenericMessages ==
    {"The username or password you entered is wrong",
     "The email or password you entered is wrong"}

\* C18: an answered login attempt that names an identity without account,
\* and one that names an account with a wrong password, both carry the code
\* INVALID_CREDENTIALS and a message that does not tell which it was.
C18_LoginFailuresIndistinguishable ==
    ( /\ pc = "idle"
      /\ request # NoAttempt
      /\ UnknownIdentity(request) \/ WrongPassword(request) )
    => /\ raised = "INVALID_CREDENTIALS"
       /\ response.message \in GenericMessages

\* ============================================== properties, second part
\* The request carries neither cookie: each is absent or has an empty value.
NoAuthCookies(req) ==
    /\ req.JWT_ACCESS_TOKEN.kind \in {"absent", "empty"}
    /\ req.JWT_REFRESH_TOKEN.kind \in {"absent", "empty"}

\* C21: on_request_start of a request with neither cookie returns with the
\* requester anonymous, no new access token, no cookie removal pending, no
\* read and no write of the table, and resolve then sets nothing on the
\* request.
C21_NoCookiesIsAnonymousAndFree ==
    [][ (StartStep /\ NoAuthCookies(request'))
        => /\ raised' = "none"
           /\ self' = UnsetState
           /\ dbReads' = 0
           /\ dbWrites' = 0
           /\ store' = store
           /\ minted' = minted
           /\ resolve_request(self', request') = request'
           /\ resolve_context(self', context') = NewContext ]_vars

\* A request with an empty access-token cookie and no refresh-token cookie
\* was started on an instance that served a logged-in requester before.
C21_Witness ==
    /\ pc = "resolving"
    /\ request.JWT_ACCESS_TOKEN.kind = "empty"
    /\ request.JWT_REFRESH_TOKEN.kind = "absent"
    /\ self.userID = None
    /\ minted # {}

\* ------------------------------------------ one client that also deletes
\* The client of SpecClient, which can also resolve RevokeToken with the
\* secret of any row of the table (its own or another user's).
ClientRevokeToken(secret) ==
    LET req1 == resolve_request(self, request)
        ctx1 == resolve_context(self, context)
    IN  /\ pc = "resolving"
        /\ fields < MaxClientFields
        /\ ctx1.userID # None
        /\ request' = req1
        /\ context' = ctx1
        /\ store' = RevokeToken_mutate(ctx1, secret, store)
        /\ fields' = fields + 1
        /\ UNCHANGED <<now, nextId, minted, issuedRefresh, self, response, pc,
                       raised, revokedLog, dbReads, dbWrites>>

NextClientRevoking ==
    \/ ClientTick
    \/ ClientRequest
    \/ \E u \in Users, ro \in BOOLEAN : ClientLogin(u, ro)
    \/ ClientLogout
    \/ ClientRevokeOtherTokens
    \/ \E r \in store : ClientRevokeToken(r.token)
    \/ ClientFinish

SpecClientRevoking == Init /\ [][NextClientRevoking]_vars

\* C22: every step keeps every row with its id, owner, secret and issue
\* time (revocation only sets revoked), except a step that resolves
\* RevokeToken for the row's owner, which removes that row and no other.
C22_RowsDeletedOnlyByOwnersRevokeToken ==
    [][ \A r \in store :
          IF r.id \in Ids(store')
          THEN \E x \in store' : /\ x.id = r.id
                                 /\ x.user = r.user
                                 /\ x.token = r.token
                                 /\ x.issued = r.issued
          ELSE /\ FieldStep
               /\ self.userID = r.user
               /\ store' = store \ {r}
               /\ context'.LOGIN_USER = context.LOGIN_USER
               /\ context'.LOGOUT_USER = context.LOGOUT_USER ]_vars

\* A row was deleted by RevokeToken, and a row that was revoked is still in
\* the table.
C22_Witness ==
    /\ \E n \in 1..(nextId - 1) : n \notin Ids(store)
    /\ \E r \in store : r.revoked # None

\* C23: the access token a renewal generates from row R carries R's issue
\* time as origIat, the time of generation as iat and iat plus the
\* access-token lifetime as exp; all access tokens generated from one row
\* carry the same origIat.
C23_RenewedTokensKeepOrigIat ==
    [][ /\ (StartStep /\ self'.new_JWT_access_token # NoToken)
           => /\ self'.refreshTokenObj \in store
              /\ self'.new_JWT_access_token.origIat
                     = self'.refreshTokenObj.issued
              /\ self'.new_JWT_access_token.iat = now
              /\ self'.new_JWT_access_token.exp
                     = now + JWT_ACCESS_TOKEN_EXPIRATION_DELTA
              /\ self'.new_JWT_access_token \in minted'
        /\ \A t1 \in minted', t2 \in minted' :
               t1.rt = t2.rt => t1.origIat = t2.origIat ]_vars

\* One session was renewed at two different times.
C23_Witness ==
    \E t1 \in minted, t2 \in minted :
        /\ t1.rt = t2.rt
        /\ t1.iat # t2.iat
        /\ t1.origIat = t2.origIat

\* ===================================================== the token exchange
\* SetRefreshToken.mutate against the table.  Here request holds the
\* arguments of one exchange (the secret presented, and whether the
\* deployment's REVOKE_OTHER_TOKENS_ON_AUTH_FOR_USER applies to the owner),
\* raised the code of the AuthError ("none" when the mutation returned) and
\* context.LOGIN_USER the user it returned.
\* timedelta(minutes=2), in ticks: shorter than the refresh-token lifetime.
ExchangeWindow == 2

\* verify_refresh_token: the row the presented token stands for, when it is
\* neither revoked nor past its lifetime; NoRow when the call raises
\* AuthError.
verify_refresh_token(secret, db, t) ==
    LET m == ActiveRows(db, secret, t)
    IN  IF m = {} THEN NoRow ELSE CHOOSE r \in m : TRUE

\* A mutation that applies the revocation policy before it tests the window.
SetRefreshToken_mutate_revoking_first(secret, revokeOthers, req, db, t) ==
    LET rt == verify_refresh_token(secret, db, t)
        db2 == IF revokeOthers
               THEN revoke_other_tokens(rt.user, req, db, t)
               ELSE db
    IN  IF rt = NoRow
        THEN [db |-> db, raised |-> "INVALID_TOKEN", user |-> None]
        ELSE IF t - rt.issued > ExchangeWindow
        THEN [db |-> db2, raised |-> "FORBIDDEN", user |-> None]
        ELSE [db |-> db2, raised |-> "none", user |-> rt.user]

\* SetRefreshToken.mutate: the table after it, the code of the AuthError it
\* raised and the user it returned.
SetRefreshToken_mutate(secret, revokeOthers, req, db, t) ==
    LET rt == verify_refresh_token(secret, db, t)
    IN  IF rt = NoRow
        THEN [db |-> db, raised |-> "INVALID_TOKEN", user |-> None]
        ELSE IF t - rt.issued > ExchangeWindow
        THEN [db |-> db, raised |-> "FORBIDDEN", user |-> None]
        ELSE [db |-> IF revokeOthers
                     THEN revoke_other_tokens(rt.user, req, db, t)
                     ELSE db,
              raised |-> "none", user |-> rt.user]

NoExchange == [token |-> None, revokeOthers |-> FALSE]

InitExchange ==
    /\ now = 0
    /\ store = {}
    /\ nextId = 1
    /\ minted = {}
    /\ issuedRefresh = {}
    /\ self = UnsetState
    /\ request = NoExchange
    /\ context = NewContext
    /\ response = NoResponse
    /\ pc = "idle"
    /\ fields = 0
    /\ raised = "none"
    /\ revokedLog = {}
    /\ dbReads = 0
    /\ dbWrites = 0

\* A login elsewhere creates a row with a secret never used before.
ExchangeCreate(u) == StoreCreate(u, nextId)

\* The mutation is called with a secret and the policy of the deployment.
ExchangeAttempt(secret, revokeOthers) ==
    /\ pc = "idle"
    /\ request' = [token |-> secret, revokeOthers |-> revokeOthers]
    /\ pc' = "resolving"
    /\ UNCHANGED <<now, store, nextId, minted, issuedRefresh, self, context,
                   response, fields, raised, revokedLog, dbReads, dbWrites>>

\* The mutation runs.
ExchangeResolve ==
    LET r == SetRefreshToken_mutate(request.token, request.revokeOthers,
                                    NewRequest(NoToken, NoToken), store, now)
    IN  /\ pc = "resolving"
        /\ store' = r.db
        /\ raised' = r.raised
        /\ context' = [NewContext EXCEPT !.LOGIN_USER = r.user]
        /\ revokedLog' = LogRevocations(revokedLog, store, r.db, now)
        /\ pc' = "idle"
        /\ UNCHANGED <<now, nextId, minted, issuedRefresh, self, request,
                       response, fields, dbReads, dbWrites>>

NextExchange ==
    \/ Tick
    \/ \E u \in Users : ExchangeCreate(u)
    \/ \E u \in Users : StoreRevokeOthers(u)
    \/ \E secret \in 1..MaxStoreRows, ro \in BOOLEAN :
           ExchangeAttempt(secret, ro)
    \/ ExchangeResolve

SpecExchange == InitExchange /\ [][NextExchange]_vars

\* C24: the exchange returns a user only for a valid row issued at most
\* ExchangeWindow before now; for a valid row issued earlier it raises
\* FORBIDDEN and leaves the table as it was.
C24_ExchangeOnlyInsideWindow ==
    [][ FinishStep =>
          LET rt == verify_refresh_token(request.token, store, now)
          IN  /\ raised' = "none"
                 => /\ rt # NoRow
                    /\ now - rt.issued <= ExchangeWindow
                    /\ context'.LOGIN_USER = rt.user
              /\ (rt # NoRow /\ now - rt.issued > ExchangeWindow)
                 => /\ raised' = "FORBIDDEN"
                    /\ context'.LOGIN_USER = None
                    /\ store' = store ]_vars

\* An exchange under the revocation policy was refused for a row that is
\* valid but older than the window, while its owner has another active row.
C24_Witness ==
    /\ pc = "idle"
    /\ raised = "FORBIDDEN"
    /\ request.revokeOthers
    /\ \E r \in store, r2 \in store :
           /\ r.token = request.token
           /\ r.revoked = None
           /\ r2.id # r.id
           /\ r2.user = r.user
           /\ r2.revoked = None

\* ================================================================ decoding
\* decode_payload_from_token under a deployment that sets JWT_LEEWAY.  Here
\* context holds the deployment's setting, request the token to decode (in
\* its access-token cookie) and raised the AuthError code ("none" when the
\* payload was returned).
MaxLeeway == 2

\* The tokens generate_token_from_claims has signed by time t, and strings
\* it has not signed.
TokensAt(t) ==
    {generate_token_from_claims([NoToken EXCEPT !.kind = "access",
                                                !.userID = 1, !.origIat = 0],
                                JWT_ACCESS_TOKEN_EXPIRATION_DELTA, g)
     : g \in 0..t}
    \cup {generate_token_from_claims([NoToken EXCEPT !.kind = "refresh",
                                                     !.refreshToken = 1],
                                     JWT_REFRESH_TOKEN_EXPIRATION_DELTA, g)
          : g \in 0..t}
    \cup {EmptyCookie, GarbledCookie}

InitDecode ==
    /\ now = 0
    /\ store = {}
    /\ nextId = 1
    /\ minted = {}
    /\ issuedRefresh = {}
    /\ self = UnsetState
    /\ request = NewRequest(NoToken, NoToken)
    /\ context \in {[JWT_LEEWAY |-> l] : l \in 0..MaxLeeway}
    /\ response = NoResponse
    /\ pc = "idle"
    /\ fields = 0
    /\ raised = "none"
    /\ revokedLog = {}
    /\ dbReads = 0
    /\ dbWrites = 0

\* A token arrives.
DecodeAttempt(token) ==
    /\ pc = "idle"
    /\ request' = NewRequest(token, NoToken)
    /\ pc' = "resolving"
    /\ UNCHANGED <<now, store, nextId, minted, issuedRefresh, self, context,
                   response, fields, raised, revokedLog, dbReads, dbWrites>>

\* decode_payload_from_token is called with it.
DecodeResolve ==
    LET r == decode_payload_from_token(request.JWT_ACCESS_TOKEN, now)
    IN  /\ pc = "resolving"
        /\ raised' = IF r.code = "ok" THEN "none" ELSE r.code
        /\ pc' = "idle"
        /\ UNCHANGED <<now, store, nextId, minted, issuedRefresh, self,
                       request, context, response, fields, revokedLog,
                       dbReads, dbWrites>>

NextDecode ==
    \/ Tick
    \/ \E token \in TokensAt(now) : DecodeAttempt(token)
    \/ DecodeResolve

SpecDecode == InitDecode /\ [][NextDecode]_vars

\* C25: a signed token is decoded while now is before exp + the configured
\* leeway and fails with EXPIRED_TOKEN once now is past it (at the very
\* instant exp + leeway the releases of PyJWT differ, nothing is asked
\* there); a string that is not a signed token fails with INVALID_TOKEN.
C25_DecodesWithinLeeway ==
    [][ FinishStep =>
          LET token == request.JWT_ACCESS_TOKEN
              limit == token.exp + context.JWT_LEEWAY
          IN  IF token.kind \in {"access", "refresh"}
              THEN /\ now < limit => raised' = "none"
                   /\ now > limit => raised' = "EXPIRED_TOKEN"
                   /\ raised' \in {"none", "EXPIRED_TOKEN"}
              ELSE raised' = "INVALID_TOKEN" ]_vars

\* ============================================================ sessions
\* AuthQueries.resolve_mySessions against a table that logins and
\* revocations fill.  context holds the caller and the database in use,
\* request the arguments of the query, response the rows it returned.  The
\* table holds up to MaxStoreRows rows, a page up to MaxCount.
MaxCount == 2

\* ORDER BY revoked DESC, issued DESC: row a is sorted before row b.  Where
\* a NULL revoked sorts is up to the database: before every value under
\* DESC on PostgreSQL and Oracle, after every value on SQLite and MySQL.
sorts_before(a, b, nulls_first) ==
    IF a.revoked # b.revoked
    THEN IF a.revoked = None THEN nulls_first
         ELSE IF b.revoked = None THEN ~ nulls_first
         ELSE a.revoked > b.revoked
    ELSE a.issued > b.issued

\* The orders the database may return rows in: rows the ordering does not
\* tell apart come in any order.
order_by(rows, nulls_first) ==
    {s \in [1..Cardinality(rows) -> rows] :
        /\ \A i, j \in DOMAIN s : i # j => s[i] # s[j]
        /\ \A i, j \in DOMAIN s :
              i < j => ~ sorts_before(s[j], s[i], nulls_first)}

\* filter(user_id=info.context.userID).order_by('-revoked', '-issued')
\* [offset:offset+count]: the listings the query may return.
resolve_mySessions(ctx, offset, count, db, nulls_first) ==
    {[i \in 1..(IF Len(s) > offset
                THEN (IF Len(s) - offset < count THEN Len(s) - offset
                      ELSE count)
                ELSE 0) |-> s[offset + i]]
     : s \in order_by({r \in db : r.user = ctx.userID}, nulls_first)}

InitSessions ==
    /\ now = 0
    /\ store = {}
    /\ nextId = 1
    /\ minted = {}
    /\ issuedRefresh = {}
    /\ self = UnsetState
    /\ request = [offset |-> 0, count |-> 0]
    /\ context \in {[userID |-> None, nulls_first |-> b] : b \in BOOLEAN}
    /\ response = <<>>
    /\ pc = "idle"
    /\ fields = 0
    /\ raised = "none"
    /\ revokedLog = {}
    /\ dbReads = 0
    /\ dbWrites = 0

\* A login creates a row with a secret never used before.
SessionsCreate(u) == StoreCreate(u, nextId)

\* A request resolved to user u (None: to nobody) asks for its sessions.
SessionsQuery(u, offset, count) ==
    /\ pc = "idle"
    /\ context' = [context EXCEPT !.userID = u]
    /\ request' = [offset |-> offset, count |-> count]
    /\ pc' = "resolving"
    /\ UNCHANGED <<now, store, nextId, minted, issuedRefresh, self,
                   response, fields, raised, revokedLog, dbReads, dbWrites>>

\* The resolver returns.
SessionsResolve ==
    /\ pc = "resolving"
    /\ response' \in resolve_mySessions(context, request.offset,
                                        request.count, store,
                                        context.nulls_first)
    /\ pc' = "idle"
    /\ UNCHANGED <<now, store, nextId, minted, issuedRefresh, self,
                   request, context, fields, raised, revokedLog, dbReads,
                   dbWrites>>

NextSessions ==
    \/ ClientTick
    \/ \E u \in Users : SessionsCreate(u)
    \/ \E r \in store : StoreLogout(r)
    \/ \E u \in Users \cup {None}, offset \in 0..1 :
          SessionsQuery(u, offset, MaxCount)
    \/ SessionsResolve

SpecSessions == InitSessions /\ [][NextSessions]_vars

\* C26: the listing holds only rows of the requesting user, every active
\* row before every revoked one and, among the active and among the
\* revoked, in descending order of issue time; from offset 0 it holds the
\* user's rows up to the count; the table is unchanged.
C26_SessionsActiveFirstThenNewestFirst ==
    [][ FinishStep =>
          LET listing == response'
              mine == {r \in store : r.user = context.userID}
          IN  /\ store' = store
              /\ \A i \in DOMAIN listing : listing[i] \in mine
              /\ \A i, j \in DOMAIN listing :
                    i < j =>
                      /\ listing[i] # listing[j]
                      /\ listing[i].revoked # None
                            => listing[j].revoked # None
                      /\ (listing[i].revoked = None)
                            = (listing[j].revoked = None)
                            => listing[i].issued >= listing[j].issued
              /\ request.offset = 0 =>
                    Len(listing) = (IF Cardinality(mine) < request.count
                                    THEN Cardinality(mine)
                                    ELSE request.count) ]_vars

\* ------------------------------------------------- the resolved instance
\* C27: in the instance state on_request_start leaves behind, the
\* remove-auth-cookies flag is never set together with a userID nor
\* together with a new access token, and a new access token comes with the
\* userID of the owner of the refresh-token row that was found.
C27_ResolvedStateIsConsistent ==
    [][ (StartStep /\ raised' = "none") =>
          /\ ~ (self'.remove_auth_cookies /\ self'.userID # None)
          /\ ~ (self'.remove_auth_cookies
                /\ self'.new_JWT_access_token # NoToken)
          /\ self'.new_JWT_access_token # NoToken =>
                /\ self'.refreshTokenObj \in store
                /\ self'.userID = self'.refreshTokenObj.user
                /\ self'.new_JWT_access_token.userID = self'.userID ]_vars

\* A request was renewed from a row of the table and resolved to its owner.
C27_Witness ==
    /\ pc = "resolving"
    /\ self.new_JWT_access_token # NoToken
    /\ self.userID = self.refreshTokenObj.user
    /\ ~ self.remove_auth_cookies
    /\ \E r \in store : r.id = self.refreshTokenObj.id

\* ========================================================== two sessions
\* Requests with any cookie values against a table of up to MaxPairRows
\* rows: the sessions of two users exist side by side, and a request may
\* carry the access token of one with the refresh token of the other.
MaxPairRows == 2
MaxPairTime == 1

\* Time passes, up to MaxPairTime.
PairTick ==
    /\ now < MaxPairTime
    /\ now' = now + 1
    /\ UNCHANGED <<store, nextId, minted, issuedRefresh, self, request,
                   context, response, pc, fields, raised, revokedLog,
                   dbReads, dbWrites>>

\* A login field is resolved for user u, one field to a request.
PairLogin(u) ==
    LET req1 == resolve_request(self, request)
        ctx1 == [resolve_context(self, context) EXCEPT !.LOGIN_USER = u]
        w == issue_tokens_on_login(ctx1, req1, store, nextId, nextId, now)
    IN  /\ pc = "resolving"
        /\ fields < MaxFields
        /\ nextId <= MaxPairRows
        /\ request' = w.req
        /\ context' = ctx1
        /\ store' = w.db
        /\ nextId' = w.nextId
        /\ fields' = fields + 1
        /\ UNCHANGED <<now, minted, issuedRefresh, self, response, pc, raised,
                       revokedLog, dbReads, dbWrites>>

NextPair ==
    \/ PairTick
    \/ \E access \in CookieValues, refresh \in CookieValues :
          StartRequest(access, refresh)
    \/ \E u \in Users : PairLogin(u)
    \/ Logout
    \/ FinishResponse

SpecPair == Init /\ [][NextPair]_vars

\* C28: a logout leaves every row alone that is not owned by the user the
\* request was resolved to, and every row when the request was resolved to
\* nobody.
C28_LogoutRevokesOnlyOwnRows ==
    [][ LogoutStep =>
          /\ \A r \in store : r.user # context'.userID => r \in store'
          /\ Ids(store') = Ids(store)
          /\ context'.userID = None => store' = store ]_vars

\* A request resolved to one user through a valid access token has logged
\* out with the secret of another user's row in its refresh-token cookie,
\* and that row is still active.
C28_Witness ==
    /\ pc = "resolving"
    /\ context.LOGOUT_USER
    /\ context.userID # None
    /\ Decodes(request.JWT_ACCESS_TOKEN, now)
    /\ \E r \in store : /\ r.token = context.refreshToken
                        /\ r.user # context.userID
                        /\ r.revoked = None

\* =================================================== renewal and revocation
\* A renewal runs beside the requests of other workers.  on_request_start
\* makes no transaction and takes no lock: between its lookup of the row
\* (_get_refresh_token_object) and its generate_token_from_claims, the
\* updates and deletes of other requests are committed.  pc is the
\* position of the renewing request: "idle", "found" after the lookup
\* returned a row, "resolving" after the token was generated.  The table
\* holds up to MaxPairRows rows.
RaceCreate(u) == nextId <= MaxPairRows /\ StoreCreate(u, nextId)

\* on_request_start up to the lookup, for a request whose refresh-token
\* cookie decodes to secret and whose access-token cookie does not decode.
RaceLookup(secret) ==
    LET s1 == [_init_request_state(self) EXCEPT !.refreshToken = secret]
        g == _get_refresh_token_object(s1, store, now)
    IN  /\ pc = "idle"
        /\ g.raised = "none"
        /\ self' = [g.ext EXCEPT !.refreshTokenObj = g.obj]
        /\ pc' = IF g.obj # NoRow THEN "found" ELSE "idle"
        /\ dbReads' = g.reads
        /\ UNCHANGED <<now, store, nextId, minted, issuedRefresh, request,
                       context, response, fields, raised, revokedLog,
                       dbWrites>>

\* on_request_start from the row it found to its end.
RaceMint ==
    LET obj == self.refreshTokenObj
        tok == generate_token_from_claims(
                   [NoToken EXCEPT !.kind = "access",
                                   !.userID = obj.user,
                                   !.origIat = obj.issued,
                                   !.rt = obj.id],
                   get_access_token_expiry_delta, now)
    IN  /\ pc = "found"
        /\ tok \in minted \/ Cardinality(minted) < MaxMinted
        /\ self' = [self EXCEPT !.refreshToken = obj.token,
                                !.new_JWT_access_token = tok,
                                !.userID = obj.user]
        /\ minted' = minted \cup {tok}
        /\ pc' = "resolving"
        /\ UNCHANGED <<now, store, nextId, issuedRefresh, request, context,
                       response, fields, raised, revokedLog, dbReads,
                       dbWrites>>

\* The renewed request is answered.
RaceFinish ==
    /\ pc = "resolving"
    /\ pc' = "idle"
    /\ UNCHANGED <<now, store, nextId, minted, issuedRefresh, self, request,
                   context, response, fields, raised, revokedLog, dbReads,
                   dbWrites>>

NextRace ==
    \/ PairTick
    \/ \E u \in Users : RaceCreate(u)
    \/ \E secret \in 1..MaxPairRows : RaceLookup(secret)
    \/ RaceMint
    \/ RaceFinish
    \/ \E r \in store : StoreLogout(r)
    \/ \E u \in Users : StoreRevokeOthers(u)
    \/ \E r \in store : StoreDelete(r)

SpecRace == Init /\ [][NextRace]_vars

\* C29: whenever an access token is generated, the row it is generated
\* from is in the table and not revoked at that moment.
C29_NoTokenFromRevokedRow ==
    [][ \A tok \in minted' :
          (pc = "found" /\ pc' = "resolving"
           /\ tok = self'.new_JWT_access_token)
          => \E r \in store : /\ r.id = tok.rt
                              /\ r.revoked = None ]_vars

\* ========================================================= a long session
\* The requests of Spec over a clock that runs past the end of a session:
\* a row issued at 0 stops renewing after JWT_REFRESH_TOKEN_EXPIRATION_DELTA
\* and its last access token ends JWT_ACCESS_TOKEN_EXPIRATION_DELTA later.
MaxLongTime == 5

LongTick ==
    /\ now < MaxLongTime
    /\ now' = now + 1
    /\ UNCHANGED <<store, nextId, minted, issuedRefresh, self, request,
                   context, response, pc, fields, raised, revokedLog,
                   dbReads, dbWrites>>

NextLong ==
    \/ LongTick
    \/ \E a \in CookieValues, r \in CookieValues : StartRequest(a, r)
    \/ Query
    \/ \E u \in Users, ro \in BOOLEAN : Login(u, ro)
    \/ FinishResponse

SpecLong == Init /\ [][NextLong]_vars

\* C30: a renewal from a row succeeds only up to the row's issue time + the
\* refresh-token lifetime, and no request that arrives later than the issue
\* time + the refresh-token lifetime + the access-token lifetime + the
\* leeway is resolved to a user from the row or from an access token
\* generated from it.
C30_SessionEndsWithRefreshToken ==
    [][ StartStep =>
          /\ self'.new_JWT_access_token # NoToken
                => now <= self'.refreshTokenObj.issued
                              + JWT_REFRESH_TOKEN_EXPIRATION_DELTA
          /\ \A r \in store :
                now > r.issued + JWT_REFRESH_TOKEN_EXPIRATION_DELTA
                          + JWT_ACCESS_TOKEN_EXPIRATION_DELTA + JWT_LEEWAY
                => ~ (pc' = "resolving"
                      /\ ResolvedFrom(self', request', r.id)) ]_vars

\* A session renewed at the last moment of its refresh token: a request
\* that arrives after the end with the access token of that renewal and
\* the refresh-token cookie of the never revoked row is anonymous.
C30_Witness ==
    /\ pc = "resolving"
    /\ fields = 0
    /\ self.userID = None
    /\ \E r \in store :
          /\ r.revoked = None
          /\ now > r.issued + JWT_REFRESH_TOKEN_EXPIRATION_DELTA
                       + JWT_ACCESS_TOKEN_EXPIRATION_DELTA + JWT_LEEWAY
          /\ request.JWT_ACCESS_TOKEN \in minted
          /\ request.JWT_ACCESS_TOKEN.rt = r.id
          /\ request.JWT_ACCESS_TOKEN.iat
                = r.issued + JWT_REFRESH_TOKEN_EXPIRATION_DELTA
          /\ request.JWT_REFRESH_TOKEN \in issuedRefresh
          /\ request.JWT_REFRESH_TOKEN.refreshToken = r.token

\* ======================================================= session activity
\* UserSession.resolve_isActive for a row at time t: not revoked and
\* issued + JWT_REFRESH_TOKEN_EXPIRATION_DELTA > timezone.now().
resolve_isActive(r, t) ==
    /\ r.revoked = None
    /\ r.issued + JWT_REFRESH_TOKEN_EXPIRATION_DELTA > t

\* The fields of a UserSession resolved from a row at time t.
UserSession(r, t) ==
    [token |-> r.token, issued |-> r.issued, revoked |-> r.revoked,
     isActive |-> resolve_isActive(r, t)]

\* A row is created while the table holds fewer than MaxPairRows rows.
ActiveCreate(u) == nextId <= MaxPairRows /\ StoreCreate(u, nextId)

\* A request resolved to user u asks for the first page of its sessions.
ActiveQuery(u) == SessionsQuery(u, 0, MaxCount)

\* mySessions returns and every field of every session is resolved.
ActiveResolve ==
    /\ pc = "resolving"
    /\ \E s \in resolve_mySessions(context, request.offset, request.count,
                                   store, context.nulls_first) :
          response' = [i \in DOMAIN s |-> UserSession(s[i], now)]
    /\ pc' = "idle"
    /\ UNCHANGED <<now, store, nextId, minted, issuedRefresh, self,
                   request, context, fields, raised, revokedLog, dbReads,
                   dbWrites>>

NextActive ==
    \/ Tick
    \/ \E u \in Users : ActiveCreate(u)
    \/ \E r \in store : StoreLogout(r)
    \/ \E u \in Users : ActiveQuery(u)
    \/ ActiveResolve

SpecActive == InitSessions /\ [][NextActive]_vars

\* C31: the isActive of every listed session is TRUE exactly when the
\* lookup of the renewal, made at the same time with the session's secret,
\* returns a row.
C31_IsActiveAgreesWithLookup ==
    [][ FinishStep =>
          \A i \in DOMAIN response' :
              response'[i].isActive
                  <=> Lookup(response'[i].token).obj # NoRow ]_vars

====
